---- MODULE Spec2Model ----
(***************************************************************************)
(* Throat-length models of OpenPNM (Geometry/models/throat_length.py):     *)
(* straight and voronoi, over a network and a geometry.                    *)
(*                                                                         *)
(* Numbers.  The source computes on floats.  Here every float is an exact  *)
(* fixed-point number: the integer k stands for k * 0.5e-9 (half a         *)
(* nanometre).  Coordinates and diameters are drawn from sets on which the *)
(* operations the source applies (difference, square, sum, square root,    *)
(* halving) are exact, so no rounding is modelled or needed: Sqrt is only  *)
(* defined on perfect squares and halving is applied to even numbers.      *)
(*                                                                         *)
(* Arrays are functions on 0..n-1, as in the source (0-based), and are     *)
(* indexed as numpy indexes them: i in -n..-1 addresses element n+i, any   *)
(* other i outside 0..n-1 raises IndexError.                               *)
(***************************************************************************)
EXTENDS Integers, Sequences, FiniteSets, TLC

VARIABLES
    network,    \* the network: a mapping from property names to arrays
    geometry,   \* the geometry: name, index maps and centroids
    logger,     \* geometry._logger: the warnings emitted so far
    returned    \* for every call made so far, what its first invocation gave

vars == <<network, geometry, logger, returned>>

-----------------------------------------------------------------------------
(* Bounds of the model *)

MaxNp == 3      \* pores of the network
MaxNt == 2      \* throats of the network
MaxNg == 2      \* entries of the geometry's pore.map
MaxLog == 2     \* warnings the logger holds before calls of straight stop

-----------------------------------------------------------------------------
(* Arrays *)

Size(a) == Cardinality(DOMAIN a)

Arrays(n, S) == [0..(n - 1) -> S]

\* numpy: a valid index of an array of n entries
InBounds(n, i) == (-n) <= i /\ i < n

\* numpy: the position an in-bounds index addresses
Position(n, i) == IF i < 0 THEN n + i ELSE i

\* a[i] for a single integer index
GetItem(a, i) == a[Position(Size(a), i)]

\* a[idx] for an integer index array idx (fancy indexing gives a new array)
Take(a, idx) == [k \in DOMAIN idx |-> GetItem(a, idx[k])]

\* whether a[idx] raises IndexError
TakeFails(a, idx) == \E k \in DOMAIN idx : ~InBounds(Size(a), idx[k])

\* conns[:, c]
Column(conns, c) == [t \in DOMAIN conns |-> conns[t][c + 1]]

\* The indices of the true entries of a mask, ascending, as an array
RECURSIVE WhereFrom(_, _, _)
WhereFrom(mask, i, acc) ==
    IF i >= Size(mask) THEN acc
    ELSE WhereFrom(mask, i + 1,
                   IF mask[i] THEN (Size(acc) :> i) @@ acc ELSE acc)

Where(mask) == WhereFrom(mask, 0, <<>>)

-----------------------------------------------------------------------------
(* Fixed-point arithmetic *)

\* _sp.sqrt on a perfect square
Sqrt(x) == CHOOSE r \in 0..x : r * r = x

\* (x) / 2 on an even number
Half(x) == x \div 2

\* sqrt(sum((c1 - c2)**2))
Euclid(c1, c2) ==
    Sqrt((c1[1] - c2[1]) * (c1[1] - c2[1])
         + (c1[2] - c2[2]) * (c1[2] - c2[2])
         + (c1[3] - c2[3]) * (c1[3] - c2[3]))

\* _sp.linalg.norm of a 3-vector
Norm(v) == Sqrt(v[1] * v[1] + v[2] * v[2] + v[3] * v[3])

\* the difference of two 3-vectors
VecSub(a, b) == <<a[1] - b[1], a[2] - b[2], a[3] - b[3]>>

\* 1e-9, the length assigned to a negative entry
FloorLength == 2

Warning == "Negative throat lengths are calculated. Arbitrary positive length assigned (1e9 meters)"

-----------------------------------------------------------------------------
(* What a call gives back: a result vector, or the exception it raised *)

Ok(value) == [status |-> "ok", value |-> value]

Raised(exc) == [status |-> exc, value |-> <<>>]

NoResult == [status |-> "not called", value |-> <<>>]

-----------------------------------------------------------------------------
(* The network's collaborators used by the models *)

\* the label under which the network records the throats of a geometry
LabelKey(name) == CASE name = "geo" -> "throat.geo"

\* network.throats(name): the indices of the throats labelled name, ascending
Throats(net, name) == Where(net[LabelKey(name)])

\* network.Np, network.Nt
Np(net) == Size(net["pore.coords"])

Nt(net) == Size(net["throat.conns"])

-----------------------------------------------------------------------------
(* straight *)

\* E = sqrt(sum((C1 - C2)**2, axis=1))
Distances(C1, C2) == [t \in DOMAIN C1 |-> Euclid(C1[t], C2[t])]

\* value = E - (D1 + D2): the halving left out
RawLengths_NoHalf(E, D1, D2) == [t \in DOMAIN E |-> E[t] - (D1[t] + D2[t])]

\* value = E - (D1 + D2)/2
RawLengths(E, D1, D2) == [t \in DOMAIN E |-> E[t] - Half(D1[t] + D2[t])]

\* _sp.where(value <= 0)[0]: zero taken for negative
NegativeEntries_OrZero(value) == {k \in DOMAIN value : value[k] <= 0}

\* _sp.where(value < 0)[0]
NegativeEntries(value) == {k \in DOMAIN value : value[k] < 0}

\* _sp.all(value < 0): all taken for any
AnyNegative_All(value) == \A k \in DOMAIN value : value[k] < 0

\* _sp.any(value < 0)
AnyNegative(value) == \E k \in DOMAIN value : value[k] < 0

\* value[Ts] = x
SetItems(value, Ts, x) == [k \in DOMAIN value |-> IF k \in Ts THEN x ELSE value[k]]

\* the subsetting left out: the values of all network throats
SelectThroats_All(value, throats) == value

\* value = value[throats]
SelectThroats(value, throats) == Take(value, throats)

\* The body of straight up to its return: the value it returns or the
\* exception it raises, and whether it logged the warning.
StraightBody(net, geom, pore_diameter) ==
    LET throats == Throats(net, geom["name"])
        pore1 == Column(net["throat.conns"], 0)
        pore2 == Column(net["throat.conns"], 1)
    IN  IF TakeFails(net["pore.coords"], pore1) \/ TakeFails(net["pore.coords"], pore2)
        THEN [ret |-> Raised("IndexError"), warned |-> FALSE]
        ELSE
        LET C1 == Take(net["pore.coords"], pore1)
            C2 == Take(net["pore.coords"], pore2)
            E == Distances(C1, C2)
        IN  IF pore_diameter \notin DOMAIN net
            THEN [ret |-> Raised("KeyError"), warned |-> FALSE]
            ELSE
            LET D1 == Take(net[pore_diameter], pore1)
                D2 == Take(net[pore_diameter], pore2)
                all == RawLengths(E, D1, D2)
            IN  IF TakeFails(all, throats)
                THEN [ret |-> Raised("IndexError"), warned |-> FALSE]
                ELSE
                LET value == SelectThroats(all, throats)
                IN  IF AnyNegative(value)
                    THEN [ret |-> Ok(SetItems(value, NegativeEntries(value), FloorLength)),
                          warned |-> TRUE]
                    ELSE [ret |-> Ok(value), warned |-> FALSE]

\* straight storing its result on the network (network['throat.length'] = value)
\* before returning it
straight_StoresLength(net, geom, lg, pore_diameter) ==
    LET b == StraightBody(net, geom, pore_diameter)
    IN  [ret |-> b.ret,
         network |-> IF b.ret.status = "ok"
                     THEN ("throat.length" :> b.ret.value) @@ net
                     ELSE net,
         geometry |-> geom,
         logger |-> IF b.warned THEN Append(lg, Warning) ELSE lg]

\* straight(network, geometry, pore_diameter): what the call returns and what
\* it leaves behind in the objects it was given.
straight(net, geom, lg, pore_diameter) ==
    LET b == StraightBody(net, geom, pore_diameter)
    IN  [ret |-> b.ret,
         network |-> net,
         geometry |-> geom,
         logger |-> IF b.warned THEN Append(lg, Warning) ELSE lg]

-----------------------------------------------------------------------------
(* voronoi *)

\* the integers a connection table of a network of n pores may hold
AnyIndex(n) == (-(n + 1))..n

\* whether x occurs in list
Contains(list, x) == \E i \in DOMAIN list : list[i] = x

\* the outcome of translating a network index: a position, or nothing found
Found(i) == [found |-> TRUE, at |-> i]

NotFound == [found |-> FALSE, at |-> 0]

\* list.index(x) returning -1 for a missing x (as str.find does) instead of raising
ListIndex_Find(list, x) ==
    IF Contains(list, x)
    THEN Found(CHOOSE i \in DOMAIN list :
                  list[i] = x /\ \A j \in DOMAIN list : list[j] = x => i <= j)
    ELSE Found(-1)

\* list.index(x): the first position of x in list; raises ValueError without one
ListIndex(list, x) ==
    IF Contains(list, x)
    THEN Found(CHOOSE i \in DOMAIN list :
                  list[i] = x /\ \A j \in DOMAIN list : list[j] = x => i <= j)
    ELSE NotFound

\* what list.index gives for every integer a connection table may hold
IndexTable(pore_map, indices) == [x \in indices |-> ListIndex(pore_map, x)]

\* the loops appending the translation of every net_pore
GeomPores(table, net_pores) ==
    [k \in DOMAIN net_pores |-> table[net_pores[k]].at]

\* whether one of those translations raises
GeomPoresFail(table, net_pores) ==
    \E k \in DOMAIN net_pores : ~table[net_pores[k]].found

\* network['throat.conns'][throats] read at the geometry's own throat numbers
Connections_Unmapped(net, throats) ==
    [k \in DOMAIN throats |-> net["throat.conns"][k]]

\* connections = network['throat.conns'][throats]
Connections(net, throats) == Take(net["throat.conns"], throats)

\* throat_centroids - pore_centroids[geom_pore]
CentroidVectors(throat_centroids, pore_centroids, geom_pore) ==
    [i \in DOMAIN throat_centroids |->
        VecSub(throat_centroids[i], GetItem(pore_centroids, geom_pore[i]))]

\* value[i] = norm(v1[i]) + norm(v1[i]): the first endpoint taken twice
SumOfNorms_FirstTwice(v1, v2, n) == [i \in 0..(n - 1) |-> Norm(v1[i]) + Norm(v1[i])]

\* value[i] = norm(v1[i]) + norm(v2[i])
SumOfNorms(v1, v2, n) == [i \in 0..(n - 1) |-> Norm(v1[i]) + Norm(v2[i])]

\* the lengths, once both endpoints have geometry-local indices
CentroidLengths(geom, geom_pore1, geom_pore2, n) ==
    LET pore_centroids == geom["pore.centroid"]
        throat_centroids == geom["throat.centroid"]
        v1 == CentroidVectors(throat_centroids, pore_centroids, geom_pore1)
        v2 == CentroidVectors(throat_centroids, pore_centroids, geom_pore2)
    IN  SumOfNorms(v1, v2, n)

\* The body of voronoi with the translations of network pore indices given
\* by table: the value it returns or the exception it raises.
VoronoiWith(table, net, geom) ==
    LET throats == geom["throat.map"]
    IN  IF TakeFails(net["throat.conns"], throats)
        THEN Raised("IndexError")
        ELSE
        LET connections == Connections(net, throats)
            net_pore1 == Column(connections, 0)
            net_pore2 == Column(connections, 1)
        IN  IF GeomPoresFail(table, net_pore1) \/ GeomPoresFail(table, net_pore2)
            THEN Raised("ValueError")
            ELSE Ok(CentroidLengths(geom,
                                    GeomPores(table, net_pore1),
                                    GeomPores(table, net_pore2),
                                    Size(connections)))

\* The body of voronoi as written: the translation is list.index
VoronoiBody(net, geom) ==
    VoronoiWith(IndexTable(geom["pore.map"], AnyIndex(Np(net))), net, geom)

\* The reverse mapping of the design notes, network index -> position in
\* pore.map, built in one pass over pore.map (rev[pore_map[i]] = i for
\* i = 0, 1, ...): a later entry replaces an earlier one.
ReverseMap(pore_map) ==
    [x \in {pore_map[i] : i \in DOMAIN pore_map} |->
        CHOOSE i \in DOMAIN pore_map :
            pore_map[i] = x /\ \A j \in DOMAIN pore_map : pore_map[j] = x => j <= i]

\* the translation by a lookup in the reverse mapping
ReverseLookup(pore_map, x) ==
    IF x \in DOMAIN ReverseMap(pore_map)
    THEN Found(ReverseMap(pore_map)[x])
    ELSE NotFound

\* voronoi with the reverse mapping in place of list.index
VoronoiReversed(net, geom) ==
    VoronoiWith([x \in AnyIndex(Np(net)) |-> ReverseLookup(geom["pore.map"], x)], net, geom)

\* voronoi(network, geometry): what the call returns and what it leaves
\* behind in the objects it was given.
voronoi(net, geom, lg) ==
    [ret |-> VoronoiBody(net, geom),
     network |-> net,
     geometry |-> geom,
     logger |-> lg]

-----------------------------------------------------------------------------
(* Inputs: the networks and geometries the calls are made on *)

\* Four points whose mutual distances (0, 6, 8, 10) and half-way points are exact
Points == << <<0, 0, 0>>, <<6, 0, 0>>, <<0, 8, 0>>, <<6, 8, 0>> >>

Pt(i) == Points[(i % 4) + 1]

\* A pore: where it is and how wide it is
PoreKinds ==
    << [coords |-> Pt(0), diameter |-> 2],
       [coords |-> Pt(1), diameter |-> 2],
       [coords |-> Pt(2), diameter |-> 18] >>

\* The pores of a network of n pores, listed kind by kind
Layouts(n) ==
    {f \in Arrays(n, DOMAIN PoreKinds) :
        \A i, j \in 0..(n - 1) : i < j => f[i] <= f[j]}

\* the names straight is asked to read the diameters from
DiameterNames == {"pore.diameter", "pore.size"}

\* a throat joins two different pores, the lower index first
Pairs(n) == {c \in (0..(n - 1)) \X (0..(n - 1)) : c[1] < c[2]}

Calls == {<<"straight", pd>> : pd \in DiameterNames} \cup {<<"voronoi", "">>}

MakeNetwork(coords, diameter, conns, mask) ==
    ("pore.coords" :> coords) @@ ("pore.diameter" :> diameter)
    @@ ("throat.conns" :> conns) @@ ("throat.geo" :> mask)

MakeGeometry(pore_map, throat_map, pore_centroid, throat_centroid) ==
    ("name" :> "geo") @@ ("pore.map" :> pore_map) @@ ("throat.map" :> throat_map)
    @@ ("pore.centroid" :> pore_centroid) @@ ("throat.centroid" :> throat_centroid)

\* the point half-way between two points
Midpoint(a, b) == <<Half(a[1] + b[1]), Half(a[2] + b[2]), Half(a[3] + b[3])>>

\* A geometry over all pores of the network and its labelled throats: pore
\* centroids at the pore centres, throat centroids half-way between them.
WholeGeometry(coords, conns, mask) ==
    LET tmap == Where(mask)
    IN  MakeGeometry([i \in DOMAIN coords |-> i], tmap, coords,
                     [k \in DOMAIN tmap |->
                        Midpoint(coords[conns[tmap[k]][1]], coords[conns[tmap[k]][2]])])

NotCalled == [c \in Calls |-> NoResult]

\* A well-formed network with pores of every kind, and a geometry over a
\* subset of its throats.
Init ==
    \E n \in 2..MaxNp, m \in 1..MaxNt :
      \E kinds \in Layouts(n), conns \in Arrays(m, Pairs(n)),
         mask \in Arrays(m, BOOLEAN) :
        LET coords == [i \in 0..(n - 1) |-> PoreKinds[kinds[i]].coords]
            diameter == [i \in 0..(n - 1) |-> PoreKinds[kinds[i]].diameter]
        IN  /\ network = MakeNetwork(coords, diameter, conns, mask)
            /\ geometry = WholeGeometry(coords, conns, mask)
            /\ logger = <<>>
            /\ returned = NotCalled

\* A well-formed network and a geometry over some of its pores and throats,
\* whose pore.map may list a pore twice or leave out a pore of its throats.
InitVoronoi ==
    \E n \in 2..MaxNp, m \in 1..MaxNt, g \in 1..MaxNg, s \in 0..1 :
      \E conns \in Arrays(m, Pairs(n)), mask \in Arrays(m, BOOLEAN),
         pore_map \in Arrays(g, 0..(n - 1)) :
        LET tmap == Where(mask)
        IN  /\ network = MakeNetwork([i \in 0..(n - 1) |-> Pt(i)],
                                     [i \in 0..(n - 1) |-> 2], conns, mask)
            /\ geometry = MakeGeometry(pore_map, tmap,
                                       [i \in 0..(g - 1) |-> Pt(i)],
                                       [k \in DOMAIN tmap |-> Pt(k + s)])
            /\ logger = <<>>
            /\ returned = NotCalled

\* A network whose connection table holds arbitrary integers.
InitErrors ==
    \E n \in 2..MaxNp, m \in 1..MaxNt :
      \E conns \in Arrays(m, AnyIndex(n) \X AnyIndex(n)) :
        LET coords == [i \in 0..(n - 1) |-> Pt(i)]
            mask == [t \in 0..(m - 1) |-> TRUE]
        IN  /\ network = MakeNetwork(coords, [i \in 0..(n - 1) |-> 2], conns, mask)
            /\ geometry = MakeGeometry([i \in 0..(n - 1) |-> i], Where(mask), coords,
                                       [k \in 0..(m - 1) |-> Pt(k)])
            /\ logger = <<>>
            /\ returned = NotCalled

-----------------------------------------------------------------------------
(* Calls *)

CallStraight(pore_diameter) ==
    LET r == straight(network, geometry, logger, pore_diameter)
    IN  /\ Len(logger) < MaxLog
        /\ network' = r.network
        /\ geometry' = r.geometry
        /\ logger' = r.logger
        /\ returned' = [returned EXCEPT ![<<"straight", pore_diameter>>] = r.ret]

CallVoronoi ==
    LET r == voronoi(network, geometry, logger)
    IN  /\ network' = r.network
        /\ geometry' = r.geometry
        /\ logger' = r.logger
        /\ returned' = [returned EXCEPT ![<<"voronoi", "">>] = r.ret]

\* straight with its default pore_diameter, and voronoi
Next ==
    \/ CallStraight("pore.diameter")
    \/ CallVoronoi

NextStraight == \E pd \in DiameterNames : CallStraight(pd)

NextVoronoi == CallVoronoi

Spec == Init /\ [][Next]_vars

SpecVoronoi == InitVoronoi /\ [][NextVoronoi]_vars

SpecErrors == InitErrors /\ [][NextStraight]_vars

-----------------------------------------------------------------------------
(* What the claims speak of *)

\* what the calls made so far returned
StraightReturned == returned[<<"straight", "pore.diameter">>]

VoronoiReturned == returned[<<"voronoi", "">>]

\* the two endpoint pores of network throat t
End1(t) == network["throat.conns"][t][1]

End2(t) == network["throat.conns"][t][2]

\* distance(coords[p1], coords[p2]) - (diameter[p1] + diameter[p2]) / 2 of throat t
Raw(t) ==
    Euclid(network["pore.coords"][End1(t)], network["pore.coords"][End2(t)])
    - Half(network["pore.diameter"][End1(t)] + network["pore.diameter"][End2(t)])

\* network.throats(geometry.name): the geometry's throat enumeration
GeomThroats == Throats(network, geometry["name"])

\* some throat of the geometry has a negative raw length
GeomHasNegative == \E i \in DOMAIN GeomThroats : Raw(GeomThroats[i]) < 0

-----------------------------------------------------------------------------
(* Claims on straight, under Spec *)

\* C1: whenever straight returns, the entry of every throat of the geometry
\* whose raw length distance - (d1 + d2)/2 is not negative is exactly that
\* raw length.
C1_StraightExact ==
    StraightReturned.status = "ok" =>
        \A i \in DOMAIN GeomThroats :
            Raw(GeomThroats[i]) >= 0 =>
                StraightReturned.value[i] = Raw(GeomThroats[i])

\* C1 witness: pores at (0,0,0) and (3,0,0) nm with diameter 1 nm each: the
\* entry is 2 nm (4 half-nanometres).
C1_Witness ==
    /\ StraightReturned.status = "ok"
    /\ \E i \in DOMAIN GeomThroats :
        LET t == GeomThroats[i]
        IN  /\ network["pore.coords"][End1(t)] = <<0, 0, 0>>
            /\ network["pore.coords"][End2(t)] = <<6, 0, 0>>
            /\ network["pore.diameter"][End1(t)] = 2
            /\ network["pore.diameter"][End2(t)] = 2
            /\ StraightReturned.value[i] = 4

\* C2: in the vector straight returns, every entry whose raw length is
\* negative equals the positive floor constant, every entry whose raw length
\* is zero or more is the raw length, and no entry is negative.
C2_StraightClamped ==
    /\ FloorLength > 0
    /\ StraightReturned.status = "ok" =>
        \A i \in DOMAIN StraightReturned.value :
            /\ Raw(GeomThroats[i]) < 0 => StraightReturned.value[i] = FloorLength
            /\ Raw(GeomThroats[i]) >= 0 => StraightReturned.value[i] = Raw(GeomThroats[i])
            /\ StraightReturned.value[i] >= 0

\* C2 witness: two pores at the same coordinates with the same diameter
\* D > 0 (raw length -D) next to a throat of raw length zero: the first is
\* set to the floor, the second stays zero.
C2_Witness ==
    /\ StraightReturned.status = "ok"
    /\ \E i, j \in DOMAIN GeomThroats :
        LET t == GeomThroats[i]
            D == network["pore.diameter"][End1(t)]
        IN  /\ network["pore.coords"][End1(t)] = network["pore.coords"][End2(t)]
            /\ network["pore.diameter"][End2(t)] = D
            /\ D > 0
            /\ Raw(t) = -D
            /\ StraightReturned.value[i] = FloorLength
            /\ Raw(GeomThroats[j]) = 0
            /\ StraightReturned.value[j] = 0

\* the raw length, or the floor when it is negative
Floored(x) == IF x < 0 THEN FloorLength ELSE x

\* C3: the vector straight returns has one entry per throat of
\* network.throats(geometry.name), and entry i is the value of the i-th
\* throat of that enumeration.
C3_StraightShape ==
    StraightReturned.status = "ok" =>
        /\ DOMAIN StraightReturned.value = 0..(Size(GeomThroats) - 1)
        /\ \A i \in DOMAIN GeomThroats :
            StraightReturned.value[i] = Floored(Raw(GeomThroats[i]))

\* C3 witness: a geometry over a proper subset of the throats, whose first
\* throat is not network throat 0 and has another value than throat 0.
C3_Witness ==
    /\ StraightReturned.status = "ok"
    /\ Size(GeomThroats) >= 1
    /\ Size(GeomThroats) < Nt(network)
    /\ GeomThroats[0] # 0
    /\ StraightReturned.value[0] # Floored(Raw(0))

\* C5: a call of straight on well-formed inputs returns the complete vector,
\* and logs the warning exactly when a throat of the geometry has a negative
\* raw length; otherwise the log is left as it was.
C5_StraightWarns ==
    [][(returned'[<<"straight", "pore.diameter">>] # StraightReturned \/ logger' # logger) =>
        /\ returned'[<<"straight", "pore.diameter">>].status = "ok"
        /\ Size(returned'[<<"straight", "pore.diameter">>].value) = Size(GeomThroats)
        /\ GeomHasNegative => logger' = Append(logger, Warning)
        /\ ~GeomHasNegative => logger' = logger]_vars

\* C5 witness: straight has returned without a warning although a network
\* throat outside the geometry has a negative raw length, which is not in
\* the result.
C5_Witness ==
    /\ StraightReturned.status = "ok"
    /\ logger = <<>>
    /\ Size(GeomThroats) >= 1
    /\ \E t \in DOMAIN network["throat.conns"] :
        /\ \A i \in DOMAIN GeomThroats : GeomThroats[i] # t
        /\ Raw(t) < 0

\* C8: no call changes the network or the geometry, and a call made again
\* returns what it returned before.
C8_ReadOnly ==
    [][/\ network' = network
       /\ geometry' = geometry
       /\ \A c \in Calls : returned[c] # NoResult => returned'[c] = returned[c]]_vars

\* C8 witness: straight has taken the clamp path twice and voronoi has returned.
C8_Witness ==
    /\ StraightReturned.status = "ok"
    /\ VoronoiReturned.status = "ok"
    /\ Len(logger) = 2
    /\ \E i \in DOMAIN GeomThroats : StraightReturned.value[i] = FloorLength

-----------------------------------------------------------------------------
(* Claims on voronoi, under SpecVoronoi *)

ThroatMap == geometry["throat.map"]

PoreMap == geometry["pore.map"]

\* the first position of network pore x in pore.map
MapPosition(x) ==
    CHOOSE g \in DOMAIN PoreMap :
        PoreMap[g] = x /\ \A h \in DOMAIN PoreMap : h < g => PoreMap[h] # x

Mapped(x) == \E g \in DOMAIN PoreMap : PoreMap[g] = x

\* |throat.centroid[i] - pore.centroid[g]| for the endpoint x of throat i
CentroidDistance(i, x) ==
    Euclid(geometry["throat.centroid"][i], geometry["pore.centroid"][MapPosition(x)])

\* a throat of the geometry has an endpoint that pore.map does not list
SpansGeometries ==
    \E i \in DOMAIN ThroatMap :
        ~Mapped(End1(ThroatMap[i])) \/ ~Mapped(End2(ThroatMap[i]))

\* C4: voronoi returns one entry per entry of throat.map, in throat.map
\* order, and entry i is the distance of throat centroid i to the centroid of
\* its first endpoint plus its distance to the centroid of its second
\* endpoint, the endpoints being those of network throat throat.map[i],
\* looked up in pore.map (which lists them all).
C4_VoronoiFormula ==
    VoronoiReturned.status = "ok" =>
        /\ ~SpansGeometries
        /\ DOMAIN VoronoiReturned.value = DOMAIN ThroatMap
        /\ \A i \in DOMAIN ThroatMap :
            VoronoiReturned.value[i] =
                CentroidDistance(i, End1(ThroatMap[i]))
                + CentroidDistance(i, End2(ThroatMap[i]))

\* C4 witness: the geometry's first throat is not network throat 0 and joins
\* other pores than throat 0, pore.map is not the identity, and the returned
\* length is the sum of two different distances.
C4_Witness ==
    /\ VoronoiReturned.status = "ok"
    /\ Size(ThroatMap) >= 1
    /\ ThroatMap[0] # 0
    /\ network["throat.conns"][ThroatMap[0]] # network["throat.conns"][0]
    /\ PoreMap[0] # 0
    /\ CentroidDistance(0, End1(ThroatMap[0])) # CentroidDistance(0, End2(ThroatMap[0]))
    /\ VoronoiReturned.value[0] > 0

\* C6: whenever an endpoint of a throat of throat.map does not occur in
\* pore.map, voronoi raises the lookup error and returns no vector.
C6_VoronoiFails ==
    (VoronoiReturned # NoResult /\ SpansGeometries) =>
        /\ VoronoiReturned.status = "ValueError"
        /\ VoronoiReturned.value = <<>>

\* C6 witness: voronoi has failed on a throat with one endpoint in pore.map
\* and the other one outside it.
C6_Witness ==
    /\ VoronoiReturned.status = "ValueError"
    /\ \E i \in DOMAIN ThroatMap :
        Mapped(End1(ThroatMap[i])) /\ ~Mapped(End2(ThroatMap[i]))

\* the network with the two endpoints of throat t exchanged
SwapEnds(net, t) ==
    [net EXCEPT !["throat.conns"][t] = <<net["throat.conns"][t][2], net["throat.conns"][t][1]>>]

\* C9: exchanging the two endpoints of any one throat leaves what voronoi
\* returns (every length, or the failure) as it was.
C9_VoronoiSymmetric ==
    VoronoiReturned # NoResult =>
        \A t \in DOMAIN network["throat.conns"] :
            VoronoiBody(SwapEnds(network, t), geometry) = VoronoiReturned

\* C9 witness: voronoi has returned a length for a throat whose centroid is
\* not equally far from the centroids of its two endpoints.
C9_Witness ==
    /\ VoronoiReturned.status = "ok"
    /\ \E i \in DOMAIN ThroatMap :
        CentroidDistance(i, End1(ThroatMap[i])) # CentroidDistance(i, End2(ThroatMap[i]))

\* two calls end alike: the same vector, or a failure each
SameOutcome(r1, r2) ==
    \/ r1.status = "ok" /\ r2.status = "ok" /\ r1.value = r2.value
    \/ r1.status # "ok" /\ r2.status # "ok"

\* both translations agree on every pore of the network
SameTranslation ==
    \A x \in 0..(Np(network) - 1) : ReverseLookup(PoreMap, x) = ListIndex(PoreMap, x)

\* no network index occurs twice in pore.map
Injective(list) == \A i, j \in DOMAIN list : list[i] = list[j] => i = j

-----------------------------------------------------------------------------
(* Claim on the failures of straight, under SpecErrors *)

\* a connection index is not in 0..Np-1
BadTopology ==
    \E t \in DOMAIN network["throat.conns"] :
        \/ network["throat.conns"][t][1] \notin 0..(Np(network) - 1)
        \/ network["throat.conns"][t][2] \notin 0..(Np(network) - 1)

\* C7: straight raises the missing-property error when the diameter name is
\* absent from the network and the invalid-topology error when a connection
\* index is not in 0..Np-1 (either of them when both are the case), and
\* returns no vector then.
C7_StraightRejects ==
    \A pd \in DiameterNames :
        LET r == returned[<<"straight", pd>>]
            absent == pd \notin DOMAIN network
        IN  r # NoResult =>
                /\ (absent /\ ~BadTopology) => r.status = "KeyError"
                /\ (BadTopology /\ ~absent) => r.status = "IndexError"
                /\ (absent /\ BadTopology) => r.status \in {"KeyError", "IndexError"}

====
